---- MODULE Spec2Model ----
(***************************************************************************)
(* Model of cchooks' Runner (runner.go): one process handles one JSON     *)
(* event read from stdin, dispatches it to a caller-supplied handler and  *)
(* resolves every failure through handleError.                            *)
(*                                                                         *)
(* A run is a walk of pc through Run's code: ReadStdin, RawStage,          *)
(* ParseJSON, Classify, one of the four handleXxx functions,               *)
(* outputResponse, and, on failure, the deferred recover function and      *)
(* handleError.  What the caller-supplied callbacks do (return a value,    *)
(* return an error, panic) is chosen when they are called.                 *)
(***************************************************************************)
EXTENDS Integers, Sequences, FiniteSets, TLC

\* Longest transcript file (in lines) the model enumerates.
MaxLines == 2

-----------------------------------------------------------------------------
(* Values *)

Kinds == {"PreToolUse", "PostToolUse", "Notification", "Stop"}

\* The event-handler slots of Runner (Raw and Error are the two other slots).
HandlerNames == Kinds \cup {"StopOnce"}

\* A Go error value; isNil is the nil error.
NoErr == [isNil |-> TRUE, msg |-> ""]
Err(m) == [isNil |-> FALSE, msg |-> m]

\* A panic value: its dynamic type and its text; ty = "none" is no panic.
NoPanic == [ty |-> "none", text |-> ""]
PanicValues ==
    { [ty |-> "string", text |-> "boom"],
      [ty |-> "string", text |-> "exit"],
      [ty |-> "error",  text |-> "custom error"],
      [ty |-> "other",  text |-> "42"] }

\* What a test's replacement of osExit panics with.
ExitSentinel == [ty |-> "string", text |-> "exit"]

\* The runtime panic of a nil pointer dereference (a runtime.Error).
NilDeref ==
    [ty |-> "error",
     text |-> "runtime error: invalid memory address or nil pointer dereference"]

\* *RawResponse; isNil is the nil pointer.
NilDirective == [isNil |-> TRUE, ExitCode |-> 0, Output |-> ""]
Directives ==
    { [isNil |-> FALSE, ExitCode |-> 0, Output |-> ""],
      [isNil |-> FALSE, ExitCode |-> 3, Output |-> "custom output"] }

\* *XxxResponse.  Continue is a *bool: "nil", "true" or "false".
\* NotificationResponse has no Decision and no Reason field.
NilResponse(k) ==
    [isNil |-> TRUE, ty |-> k, Decision |-> "", Continue |-> "nil",
     StopReason |-> "", Reason |-> ""]
AllResponses(k) ==
    IF k = "Notification"
      THEN [isNil : {FALSE}, ty : {k}, Decision : {""},
            Continue : {"nil", "true", "false"}, StopReason : {"", "s"},
            Reason : {""}]
      ELSE [isNil : {FALSE}, ty : {k}, Decision : {"", "block"},
            Continue : {"nil", "true", "false"}, StopReason : {"", "s"},
            Reason : {"", "r"}]

\* The number of fields of a response that are set.
FieldsSet(v) ==
    (IF v.Decision # "" THEN 1 ELSE 0) + (IF v.Continue # "nil" THEN 1 ELSE 0)
    + (IF v.StopReason # "" THEN 1 ELSE 0) + (IF v.Reason # "" THEN 1 ELSE 0)

\* The responses the handlers return here: no field set, any one field set,
\* or every field set.
Responses(k) ==
    { v \in AllResponses(k) :
        FieldsSet(v) \in {0, 1, IF k = "Notification" THEN 2 ELSE 4} }

\* The response type of a handler slot.
ResponseType(h) == IF h = "StopOnce" THEN "Stop" ELSE h

-----------------------------------------------------------------------------
(* The input text and its JSON reading *)

JAbsent  == [ty |-> "absent", v |-> ""]
JNum     == [ty |-> "number", v |-> "7"]
JStr(x)  == [ty |-> "string", v |-> x]
JBool(b) == [ty |-> "bool", v |-> IF b THEN "true" ELSE "false"]

NoMembers ==
    [hook_event_name |-> JAbsent, session_id |-> JAbsent,
     stop_hook_active |-> JAbsent, transcript_path |-> JAbsent]

\* The members an input object can carry.  The stop fields vary only where
\* they are read: on a Stop payload whose other fields decode.
ObjectMembers ==
    { m \in [hook_event_name :
                {JAbsent, JNum, JStr("stop")} \cup {JStr(k) : k \in Kinds},
             session_id : {JStr("test"), JNum},
             stop_hook_active : {JAbsent, JBool(FALSE), JBool(TRUE)},
             transcript_path :
                {JAbsent, JStr("missing.jsonl"), JStr("t.jsonl")}] :
        (m.hook_event_name # JStr("Stop") \/ m.session_id = JNum)
            => (m.stop_hook_active = JAbsent /\ m.transcript_path = JAbsent) }

\* What can arrive on stdin: nothing at all on a stream that stays open, a
\* read failure, text that is no JSON, a JSON value that is no object, the
\* JSON null, or a JSON object.  form tells the
\* bytes of a text as the sender wrote them (spacing, order of the members)
\* from the bytes json.Marshal writes for the same value.
Inputs ==
    { [syntax |-> x, members |-> NoMembers, form |-> "asWritten"] :
        x \in {"silent", "ioerror", "garbage", "scalar", "null"} }
    \cup { [syntax |-> "object", members |-> m, form |-> "asWritten"] :
             m \in ObjectMembers }

\* json.Marshal(rawEvent) for a non-nil map: the members in the encoder's
\* own spacing and order.
Marshal(map) == [syntax |-> "object", members |-> map, form |-> "marshalled"]

\* json.Unmarshal(rawJSON, &map[string]interface{}): an error unless the text
\* is a JSON object or null; null leaves the map nil (no members).
Unmarshal(text) ==
    IF text.syntax \in {"object", "null"}
      THEN [err |-> NoErr, map |-> text.members]
      ELSE [err |-> Err("invalid character"), map |-> NoMembers]

\* rawEvent["hook_event_name"].(string)
EventName(map) ==
    [ok |-> map.hook_event_name.ty = "string", event |-> map.hook_event_name.v]

\* A member decodes into a Go field of type t when it is absent or of type t.
FieldOK(j, t) == j.ty \in {"absent", t}

\* json.Unmarshal(eventData, &event) for the kind-specific struct, map being
\* the members of eventData, the text json.Marshal(rawEvent) gave: every
\* member that names a field of the struct must have the field's type.
DecodeEvent(k, map) ==
    LET ok == /\ FieldOK(map.session_id, "string")
              /\ k = "Stop" => /\ FieldOK(map.stop_hook_active, "bool")
                               /\ FieldOK(map.transcript_path, "string")
    IN  [ok |-> ok,
         event |-> [kind |-> k,
                    SessionID |-> map.session_id.v,
                    StopHookActive |->
                        k = "Stop" /\ map.stop_hook_active = JBool(TRUE),
                    TranscriptPath |->
                        IF k = "Stop" THEN map.transcript_path.v ELSE "",
                    Transcript |-> [isNil |-> TRUE, entries |-> <<>>]]]

NoEvent ==
    [kind |-> "none", SessionID |-> "", StopHookActive |-> FALSE,
     TranscriptPath |-> "", Transcript |-> [isNil |-> TRUE, entries |-> <<>>]]

-----------------------------------------------------------------------------
(* The transcript side-file *)

\* A line of the file: blank, malformed, one of two well-formed records, or a
\* line longer than the scanner's buffer (bufio.MaxScanTokenSize, 64 KiB).
LineKinds == {"", "bad", "e1", "e2", "long"}
WellFormed(line) == line \in {"e1", "e2"}

RECURSIVE SeqsUpTo(_, _)
SeqsUpTo(S, n) ==
    IF n = 0 THEN {<<>>}
    ELSE LET shorter == SeqsUpTo(S, n - 1)
         IN  shorter \cup
             { Append(q, x) : q \in {r \in shorter : Len(r) = n - 1}, x \in S }

Files == SeqsUpTo(LineKinds, MaxLines)

\* The files of the runs whose subject is the dispatch: an empty file, and a
\* file of a malformed line and a record.
SampleFiles == {<<>>, <<"bad", "e1">>}

\* The scanner loop of readTranscript over the lines of the file: Scan stops
\* with an error at a line beyond its buffer; a blank line and a line that
\* json.Unmarshal rejects are skipped; the other lines are appended.
RECURSIVE ScanLines(_, _)
ScanLines(lines, entries) ==
    IF lines = <<>> THEN [err |-> NoErr, entries |-> entries]
    ELSE IF Head(lines) = "long"
      THEN [err |-> Err("bufio.Scanner: token too long"), entries |-> entries]
    ELSE IF Head(lines) = "" THEN ScanLines(Tail(lines), entries)
    ELSE IF ~WellFormed(Head(lines)) THEN ScanLines(Tail(lines), entries)
    ELSE ScanLines(Tail(lines), Append(entries, Head(lines)))

\* readTranscript(path): os.Open fails for every path but t.jsonl; entries
\* starts as a nil slice and stays nil when nothing is appended; an error of
\* the scanner discards the entries.
readTranscript(path, file) ==
    IF path # "t.jsonl"
      THEN [err |-> Err("failed to open transcript file"),
            entries |-> [isNil |-> TRUE, entries |-> <<>>]]
      ELSE LET sc == ScanLines(file, <<>>)
           IN  IF ~sc.err.isNil
                 THEN [err |-> Err("error reading transcript file: "
                                   \o sc.err.msg),
                       entries |-> [isNil |-> TRUE, entries |-> <<>>]]
                 ELSE [err |-> NoErr,
                       entries |-> [isNil |-> sc.entries = <<>>,
                                    entries |-> sc.entries]]

-----------------------------------------------------------------------------
(* What the caller-supplied callbacks can do when called *)

\* A callback either panics, or returns a response (possibly nil) and an
\* error (possibly nil).
NoOutcome(k) == [panic |-> NoPanic, resp |-> NilResponse(k), err |-> NoErr]

SomeResponse(k) ==
    [isNil |-> FALSE, ty |-> k, Decision |-> "", Continue |-> "false",
     StopReason |-> "s", Reason |-> ""]

\* The response helpers.  Each returns a pointer to a new response with the
\* fields it names set and the others at their zero value.
NewResponse(k) ==
    [isNil |-> FALSE, ty |-> k, Decision |-> "", Continue |-> "nil",
     StopReason |-> "", Reason |-> ""]

Approve == [NewResponse("PreToolUse") EXCEPT !.Decision = "approve"]
Block(reason) ==
    [NewResponse("PreToolUse") EXCEPT !.Decision = "block", !.Reason = reason]
PostBlock(reason) ==
    [NewResponse("PostToolUse") EXCEPT !.Decision = "block", !.Reason = reason]

\* A StopClaude that sets the reason and leaves Continue nil.
StopClaude_ReasonOnly(reason) ==
    [NewResponse("PreToolUse") EXCEPT !.StopReason = reason]

StopClaude(reason) ==
    [NewResponse("PreToolUse") EXCEPT !.Continue = "false",
                                      !.StopReason = reason]
StopClaudePost(reason) ==
    [NewResponse("PostToolUse") EXCEPT !.Continue = "false",
                                       !.StopReason = reason]
Allow == NewResponse("PostToolUse")
OK == NewResponse("Notification")
StopFromNotification(reason) ==
    [NewResponse("Notification") EXCEPT !.Continue = "false",
                                        !.StopReason = reason]
Continue == NewResponse("Stop")
BlockStop(reason) ==
    [NewResponse("Stop") EXCEPT !.Decision = "block", !.Reason = reason]
StopFromStop(reason) ==
    [NewResponse("Stop") EXCEPT !.Continue = "false", !.StopReason = reason]

\* The reason strings the helpers are called with.
ReasonStrings == {"", "r"}

\* The helpers that take no reason, and those that take one.
PlainHelpers(k) ==
    CASE k = "PreToolUse"   -> {Approve}
      [] k = "PostToolUse"  -> {Allow}
      [] k = "Notification" -> {OK}
      [] k = "Stop"         -> {Continue}

ReasonHelpers(k) ==
    CASE k = "PreToolUse"   ->
            {Block(r) : r \in ReasonStrings}
            \cup {StopClaude(r) : r \in ReasonStrings}
      [] k = "PostToolUse"  ->
            {PostBlock(r) : r \in ReasonStrings}
            \cup {StopClaudePost(r) : r \in ReasonStrings}
      [] k = "Notification" -> {StopFromNotification(r) : r \in ReasonStrings}
      [] k = "Stop"         ->
            {BlockStop(r) : r \in ReasonStrings}
            \cup {StopFromStop(r) : r \in ReasonStrings}

HandlerOutcomes(h) ==
    LET k == ResponseType(h)
    IN  { [panic |-> NoPanic, resp |-> r, err |-> NoErr] :
            r \in Responses(k) \cup PlainHelpers(k) \cup ReasonHelpers(k)
                    \cup {NilResponse(k)} }
        \cup { [panic |-> NoPanic, resp |-> r, err |-> Err("handler error")] :
                 r \in {NilResponse(k), SomeResponse(k)} }
        \cup { [panic |-> p, resp |-> NilResponse(k), err |-> NoErr] :
                 p \in PanicValues }

RawOutcomes ==
    { [panic |-> NoPanic, resp |-> d, err |-> e] :
        d \in Directives \cup {NilDirective},
        e \in {NoErr, Err("raw handler error")} }
    \cup { [panic |-> p, resp |-> NilDirective, err |-> NoErr] :
             p \in { [ty |-> "string", text |-> "boom"], ExitSentinel } }

RawContinues == [panic |-> NoPanic, resp |-> NilDirective, err |-> NoErr]

ErrorOutcomes ==
    { [panic |-> NoPanic, resp |-> d] : d \in Directives \cup {NilDirective} }
    \cup { [panic |-> p, resp |-> NilDirective] :
             p \in { [ty |-> "string", text |-> "boom"], ExitSentinel } }

ErrorDefers == [panic |-> NoPanic, resp |-> NilDirective]

-----------------------------------------------------------------------------
(* State *)

\* The context given to Run: live, already cancelled, or past its deadline.
Contexts == {"live", "cancelled", "expired"}

VARIABLES
    runner,        \* Runner: which callback slots are non-nil
    ctx,           \* the context given to Run
    osExit,        \* the osExit variable: os.Exit, or a test's panicking stub
    stdin,         \* the text on standard input
    fs,            \* the lines of the file t.jsonl
    pc,            \* position in Run
    rawJSON,       \* Run's rawJSON
    rawEvent,      \* Run's rawEvent
    event,         \* the kind-specific event handed to the handler
    response,      \* the response the handler returned
    err,           \* the error handed to handleError
    panicVal,      \* the panic in flight
    inDefer,       \* Run's deferred function has recovered a panic
    rawCalls,      \* calls of r.Raw: argument and outcome
    calls,         \* calls of the event handlers: slot, event and outcome
    errCalls,      \* calls of r.Error: arguments and outcome
    decodes,       \* json.Unmarshal calls on the input text, by caller
    encodeFailed,  \* encoder.Encode returned an error
    stdout,        \* writes to os.Stdout
    stderr,        \* writes to os.Stderr
    exits,         \* the codes osExit was called with
    retErr         \* the error Run returned

vars ==
    <<runner, ctx, osExit, stdin, fs, pc, rawJSON, rawEvent, event, response, err,
      panicVal, inDefer, rawCalls, calls, errCalls, decodes, encodeFailed,
      stdout, stderr, exits, retErr>>

State ==
    [runner |-> runner, ctx |-> ctx, osExit |-> osExit, stdin |-> stdin, fs |-> fs,
     pc |-> pc, rawJSON |-> rawJSON, rawEvent |-> rawEvent, event |-> event,
     response |-> response, err |-> err, panicVal |-> panicVal,
     inDefer |-> inDefer, rawCalls |-> rawCalls, calls |-> calls,
     errCalls |-> errCalls, decodes |-> decodes,
     encodeFailed |-> encodeFailed, stdout |-> stdout, stderr |-> stderr,
     exits |-> exits, retErr |-> retErr]

\* The next state is the record s.
Becomes(s) ==
    /\ ctx' = s.ctx
    /\ runner' = s.runner          /\ osExit' = s.osExit
    /\ stdin' = s.stdin            /\ fs' = s.fs
    /\ pc' = s.pc                  /\ rawJSON' = s.rawJSON
    /\ rawEvent' = s.rawEvent      /\ event' = s.event
    /\ response' = s.response      /\ err' = s.err
    /\ panicVal' = s.panicVal      /\ inDefer' = s.inDefer
    /\ rawCalls' = s.rawCalls      /\ calls' = s.calls
    /\ errCalls' = s.errCalls      /\ decodes' = s.decodes
    /\ encodeFailed' = s.encodeFailed
    /\ stdout' = s.stdout          /\ stderr' = s.stderr
    /\ exits' = s.exits            /\ retErr' = s.retErr

NoText == [syntax |-> "none", members |-> NoMembers, form |-> "asWritten"]

Runners ==
    [Raw : BOOLEAN, PreToolUse : BOOLEAN, PostToolUse : BOOLEAN,
     Notification : BOOLEAN, Stop : BOOLEAN, StopOnce : BOOLEAN,
     Error : BOOLEAN]

Init ==
    /\ runner \in Runners
    /\ ctx = "live"
    /\ osExit \in {"os.Exit", "panicExit"}
    /\ stdin \in Inputs
    /\ fs \in IF stdin.members.transcript_path = JStr("t.jsonl")
                THEN SampleFiles ELSE {<<>>}
    /\ pc = "start"
    /\ rawJSON = NoText
    /\ rawEvent = NoMembers
    /\ event = NoEvent
    /\ response = NilResponse("none")
    /\ err = NoErr
    /\ panicVal = NoPanic
    /\ inDefer = FALSE
    /\ rawCalls = <<>>
    /\ calls = <<>>
    /\ errCalls = <<>>
    /\ decodes = <<>>
    /\ encodeFailed = FALSE
    /\ stdout = <<>>
    /\ stderr = <<>>
    /\ exits = <<>>
    /\ retErr = NoErr

-----------------------------------------------------------------------------
(* Control transfers *)

\* panic(v): to Run's deferred function, or, from inside it, out of Run.
Panic(s, v) ==
    IF s.inDefer
      THEN [s EXCEPT !.pc = "unwound", !.panicVal = v]
      ELSE [s EXCEPT !.pc = "recover", !.panicVal = v]

\* osExit(code): os.Exit ends the process; the stub of the tests records the
\* code and panics with "exit".
CallOsExit(s, code) ==
    LET t == [s EXCEPT !.exits = Append(@, code)]
    IN  IF s.osExit = "os.Exit"
          THEN [t EXCEPT !.pc = "exited"]
          ELSE Panic(t, ExitSentinel)

\* r.handleError(ctx, string(rawJSON), e) is called next.
Fail(s, e) == [s EXCEPT !.err = e, !.pc = "handleError"]

\* Run returns nil.
ReturnNil(s) == [s EXCEPT !.pc = "returned"]

\* fmt.Fprint(os.Stdout, output) under the guard output != "".
PrintOutput(s, output) ==
    IF output # ""
      THEN [s EXCEPT !.stdout =
                Append(@, [fmt |-> "text", text |-> output, doc |-> <<>>])]
      ELSE s

-----------------------------------------------------------------------------
(* Run, stage by stage: each operator gives the state after the stage *)

\* io.ReadAll(os.Stdin): a read failure is returned to the caller of Run;
\* otherwise the deferred recovery is installed and Run goes on.
ReadStdinStep(s) ==
    IF s.stdin.syntax = "ioerror"
      THEN [s EXCEPT !.pc = "returned",
                     !.retErr = Err("failed to read stdin: read error")]
      ELSE [s EXCEPT !.pc = "raw", !.rawJSON = s.stdin]

\* A Raw block that goes on to parse the input after it has used the
\* directive of r.Raw.
RawStageStep_NoExit(s, o) ==
    IF ~s.runner.Raw
      THEN [s EXCEPT !.pc = "parse"]
      ELSE LET t == [s EXCEPT !.rawCalls =
                        Append(@, [rawJSON |-> s.rawJSON, out |-> o,
                                   ctx |-> s.ctx])]
           IN  IF o.panic # NoPanic THEN Panic(t, o.panic)
               ELSE IF ~o.err.isNil THEN Fail(t, o.err)
               ELSE [PrintOutput(t, o.resp.Output) EXCEPT !.pc = "parse"]

\* A Raw block that reads the directive of r.Raw without the nil check.
RawStageStep_NoNilCheck(s, o) ==
    IF ~s.runner.Raw
      THEN [s EXCEPT !.pc = "parse"]
      ELSE LET t == [s EXCEPT !.rawCalls =
                        Append(@, [rawJSON |-> s.rawJSON, out |-> o,
                                   ctx |-> s.ctx])]
           IN  IF o.panic # NoPanic THEN Panic(t, o.panic)
               ELSE IF ~o.err.isNil THEN Fail(t, o.err)
               ELSE IF o.resp.isNil THEN Panic(t, NilDeref)
               ELSE CallOsExit(PrintOutput(t, o.resp.Output), o.resp.ExitCode)

\* A Raw block that drops the error of r.Raw and goes by the directive alone.
RawStageStep_ErrDropped(s, o) ==
    IF ~s.runner.Raw
      THEN [s EXCEPT !.pc = "parse"]
      ELSE LET t == [s EXCEPT !.rawCalls =
                        Append(@, [rawJSON |-> s.rawJSON, out |-> o,
                                   ctx |-> s.ctx])]
           IN  IF o.panic # NoPanic THEN Panic(t, o.panic)
               ELSE IF ~o.resp.isNil
                 THEN CallOsExit(PrintOutput(t, o.resp.Output), o.resp.ExitCode)
               ELSE [t EXCEPT !.pc = "parse"]

\* The Raw block of Run; o is what r.Raw does when called.
RawStageStep(s, o) ==
    IF ~s.runner.Raw
      THEN [s EXCEPT !.pc = "parse"]
      ELSE LET t == [s EXCEPT !.rawCalls =
                        Append(@, [rawJSON |-> s.rawJSON, out |-> o,
                                   ctx |-> s.ctx])]
           IN  IF o.panic # NoPanic THEN Panic(t, o.panic)
               ELSE IF ~o.err.isNil THEN Fail(t, o.err)
               ELSE IF ~o.resp.isNil
                 THEN CallOsExit(PrintOutput(t, o.resp.Output), o.resp.ExitCode)
               ELSE [t EXCEPT !.pc = "parse"]

\* A Run that gives up before parsing when its context is done.
ParseJSONStep_ChecksContext(s) ==
    LET u == Unmarshal(s.rawJSON)
        t == [s EXCEPT !.decodes = Append(@, "Run")]
    IN  IF s.ctx # "live" THEN Fail(s, Err("context canceled"))
        ELSE IF ~u.err.isNil
          THEN Fail(t, Err("failed to decode stdin: " \o u.err.msg))
          ELSE [t EXCEPT !.rawEvent = u.map, !.pc = "classify"]

\* json.Unmarshal(rawJSON, &rawEvent)
ParseJSONStep(s) ==
    LET u == Unmarshal(s.rawJSON)
        t == [s EXCEPT !.decodes = Append(@, "Run")]
    IN  IF ~u.err.isNil
          THEN Fail(t, Err("failed to decode stdin: " \o u.err.msg))
          ELSE [t EXCEPT !.rawEvent = u.map, !.pc = "classify"]

\* A switch whose PostToolUse case calls handlePreToolUse.
ClassifyStep_Crossed(s) ==
    LET n == EventName(s.rawEvent)
    IN  IF ~n.ok
          THEN Fail(s, Err("missing or invalid hook_event_name field"))
          ELSE CASE n.event = "PreToolUse"   -> [s EXCEPT !.pc = "handlePreToolUse"]
                 [] n.event = "PostToolUse"  -> [s EXCEPT !.pc = "handlePreToolUse"]
                 [] n.event = "Notification" -> [s EXCEPT !.pc = "handleNotification"]
                 [] n.event = "Stop"         -> [s EXCEPT !.pc = "handleStop"]
                 [] OTHER -> Fail(s, Err("unknown event type: " \o n.event))

\* A switch that ignores a discriminator it does not know.
ClassifyStep_FallThrough(s) ==
    LET n == EventName(s.rawEvent)
    IN  IF ~n.ok
          THEN Fail(s, Err("missing or invalid hook_event_name field"))
          ELSE CASE n.event = "PreToolUse"   -> [s EXCEPT !.pc = "handlePreToolUse"]
                 [] n.event = "PostToolUse"  -> [s EXCEPT !.pc = "handlePostToolUse"]
                 [] n.event = "Notification" -> [s EXCEPT !.pc = "handleNotification"]
                 [] n.event = "Stop"         -> [s EXCEPT !.pc = "handleStop"]
                 [] OTHER -> ReturnNil(s)

\* The discriminator check and the dispatch switch.
ClassifyStep(s) ==
    LET n == EventName(s.rawEvent)
    IN  IF ~n.ok
          THEN Fail(s, Err("missing or invalid hook_event_name field"))
          ELSE CASE n.event = "PreToolUse"   -> [s EXCEPT !.pc = "handlePreToolUse"]
                 [] n.event = "PostToolUse"  -> [s EXCEPT !.pc = "handlePostToolUse"]
                 [] n.event = "Notification" -> [s EXCEPT !.pc = "handleNotification"]
                 [] n.event = "Stop"         -> [s EXCEPT !.pc = "handleStop"]
                 [] OTHER -> Fail(s, Err("unknown event type: " \o n.event))

\* A call that looks at the response before the error.
CallHandler_ResponseFirst(s, h, o) ==
    LET t == [s EXCEPT !.calls = Append(@, [h |-> h, event |-> s.event,
                                            out |-> o, ctx |-> s.ctx])]
    IN  IF o.panic # NoPanic THEN Panic(t, o.panic)
        ELSE IF ~o.resp.isNil
          THEN [t EXCEPT !.response = o.resp, !.pc = "outputResponse"]
        ELSE IF ~o.err.isNil THEN Fail(t, o.err)
        ELSE [t EXCEPT !.response = o.resp, !.pc = "outputResponse"]

\* response, err := handler(ctx, &event), and the err check after it: o is
\* what the handler in slot h does.
CallHandler(s, h, o) ==
    LET t == [s EXCEPT !.calls = Append(@, [h |-> h, event |-> s.event,
                                            out |-> o, ctx |-> s.ctx])]
    IN  IF o.panic # NoPanic THEN Panic(t, o.panic)
        ELSE IF ~o.err.isNil THEN Fail(t, o.err)
        ELSE [t EXCEPT !.response = o.resp, !.pc = "outputResponse"]

\* A handleXxx that decodes the event before it looks for the handler.
HandleKind_DecodeFirst(s, k, o) ==
    LET d == DecodeEvent(k, Marshal(s.rawEvent).members)
    IN  IF ~d.ok
          THEN Fail(s, Err("failed to parse " \o k \o "Event: type mismatch"))
          ELSE IF ~s.runner[k] THEN ReturnNil(s)
          ELSE CallHandler([s EXCEPT !.event = d.event], k, o)

\* A handleXxx for which a missing handler is an error.
HandleKind_NoHandlerFails(s, k, o) ==
    IF ~s.runner[k]
      THEN Fail(s, Err("no handler registered for " \o k))
      ELSE LET d == DecodeEvent(k, Marshal(s.rawEvent).members)
           IN  IF ~d.ok
                 THEN Fail(s, Err("failed to parse " \o k \o "Event: type mismatch"))
                 ELSE CallHandler([s EXCEPT !.event = d.event], k, o)

\* handlePreToolUse, handlePostToolUse and handleNotification have one body:
\* no handler, no work; else decode the event and call the handler.
HandleKind(s, k, o) ==
    IF ~s.runner[k]
      THEN ReturnNil(s)
      ELSE LET d == DecodeEvent(k, Marshal(s.rawEvent).members)
           IN  IF ~d.ok
                 THEN Fail(s, Err("failed to parse " \o k \o "Event: type mismatch"))
                 ELSE CallHandler([s EXCEPT !.event = d.event], k, o)

handlePreToolUseStep(s, o) == HandleKind(s, "PreToolUse", o)
handlePostToolUseStep(s, o) == HandleKind(s, "PostToolUse", o)
handleNotificationStep(s, o) == HandleKind(s, "Notification", o)

\* The transcript handleStop stores in the event.
LoadTranscript(path, file) ==
    IF path # ""
      THEN LET rt == readTranscript(path, file)
           IN  IF ~rt.err.isNil
                 THEN [isNil |-> FALSE, entries |-> <<>>]
                 ELSE rt.entries
      ELSE [isNil |-> FALSE, entries |-> <<>>]

\* A resolver that prefers Stop whenever it is set.
SelectStopHandler_StopFirst(r, ev) ==
    IF r.Stop THEN "Stop"
    ELSE IF ~ev.StopHookActive /\ r.StopOnce THEN "StopOnce"
    ELSE "none"

\* A resolver that does not read stop_hook_active.
SelectStopHandler_IgnoreFlag(r, ev) ==
    IF r.StopOnce THEN "StopOnce"
    ELSE IF r.Stop THEN "Stop"
    ELSE "none"

\* The handler handleStop selects: StopOnce on a first attempt when it is
\* set, else Stop when it is set, else none.
SelectStopHandler(r, ev) ==
    IF ~ev.StopHookActive /\ r.StopOnce THEN "StopOnce"
    ELSE IF r.Stop THEN "Stop"
    ELSE "none"

\* A handleStop that returns the error of readTranscript.
handleStopStep_OpenErrorFails(s, o) ==
    LET d == DecodeEvent("Stop", Marshal(s.rawEvent).members)
    IN  IF ~d.ok
          THEN Fail(s, Err("failed to parse StopEvent: type mismatch"))
          ELSE LET rt == readTranscript(d.event.TranscriptPath, s.fs)
                   ev == [d.event EXCEPT !.Transcript =
                            LoadTranscript(d.event.TranscriptPath, s.fs)]
                   h  == SelectStopHandler(s.runner, ev)
                   t  == [s EXCEPT !.event = ev]
               IN  IF d.event.TranscriptPath # "" /\ ~rt.err.isNil
                     THEN Fail(t, rt.err)
                   ELSE IF h = "none" THEN ReturnNil(t)
                   ELSE CallHandler(t, h, o)

\* handleStop: decode the event, load the transcript, select the handler and
\* call it.
handleStopStep(s, o) ==
    LET d == DecodeEvent("Stop", Marshal(s.rawEvent).members)
    IN  IF ~d.ok
          THEN Fail(s, Err("failed to parse StopEvent: type mismatch"))
          ELSE LET ev == [d.event EXCEPT !.Transcript =
                            LoadTranscript(d.event.TranscriptPath, s.fs)]
                   h  == SelectStopHandler(s.runner, ev)
                   t  == [s EXCEPT !.event = ev]
               IN  IF h = "none" THEN ReturnNil(t) ELSE CallHandler(t, h, o)

\* An isEmpty that does not look at Reason.
isEmpty_WithoutReason(v) ==
    v.Decision = "" /\ v.Continue = "nil" /\ v.StopReason = ""

\* isEmpty(response) for a non-nil response.
isEmpty(v) ==
    IF v.ty = "Notification"
      THEN v.Continue = "nil" /\ v.StopReason = ""
      ELSE v.Decision = "" /\ v.Continue = "nil" /\ v.StopReason = ""
           /\ v.Reason = ""

\* The JSON document of a response: the fields of the struct in order, those
\* tagged omitempty left out when empty (a nil *bool, an empty string).
Encode(v) ==
    LET member(key, val, empty) ==
            IF val = empty THEN <<>> ELSE << <<key, val>> >>
    IN  IF v.ty = "Notification"
          THEN member("continue", v.Continue, "nil")
               \o member("stopReason", v.StopReason, "")
          ELSE member("decision", v.Decision, "")
               \o member("continue", v.Continue, "nil")
               \o member("stopReason", v.StopReason, "")
               \o member("reason", v.Reason, "")

\* An outputResponse that takes a nil response for an empty one.
outputResponseStep_NilIsEmpty(s, encodeOK) ==
    LET v == s.response
    IN  IF v.isNil THEN ReturnNil(s)
        ELSE IF isEmpty(v) THEN ReturnNil(s)
        ELSE IF ~encodeOK
          THEN Fail([s EXCEPT !.encodeFailed = TRUE],
                    Err("failed to encode response: write error"))
        ELSE ReturnNil([s EXCEPT !.stdout =
                Append(@, [fmt |-> "json", text |-> "", doc |-> Encode(v)])])

\* outputResponse(response) and the return of Run after it; encodeOK is
\* whether encoder.Encode succeeds.  isEmpty reads a field of the response,
\* which panics when the pointer is nil.
outputResponseStep(s, encodeOK) ==
    LET v == s.response
    IN  IF v.isNil THEN Panic(s, NilDeref)
        ELSE IF isEmpty(v) THEN ReturnNil(s)
        ELSE IF ~encodeOK
          THEN Fail([s EXCEPT !.encodeFailed = TRUE],
                    Err("failed to encode response: write error"))
        ELSE ReturnNil([s EXCEPT !.stdout =
                Append(@, [fmt |-> "json", text |-> "", doc |-> Encode(v)])])

\* A default exit code that is 2 for every kind.
DefaultExitCode_AlwaysTwo(text) == 2

\* A default exit code that matches the event name without regard to case.
DefaultExitCode_AnyCase(text) ==
    LET u == Unmarshal(text)
    IN  IF u.err.isNil /\ EventName(u.map).ok
           /\ EventName(u.map).event \in {"Stop", "stop"}
          THEN 0 ELSE 2

\* The exit code of the default error handling: 0 when the input text parses
\* and names the Stop event, else 2.
DefaultExitCode(text) ==
    LET u == Unmarshal(text)
    IN  IF u.err.isNil /\ EventName(u.map).ok /\ EventName(u.map).event = "Stop"
          THEN 0 ELSE 2

\* The default error handling of handleError.
DefaultErrorHandling(s) ==
    CallOsExit([s EXCEPT !.stderr = Append(@, s.err.msg),
                         !.decodes = Append(@, "handleError")],
               DefaultExitCode(s.rawJSON))

\* A handleError that goes on to the default handling after it has printed
\* the output of the directive.
handleErrorStep_FallsToDefault(s, o) ==
    IF s.runner.Error
      THEN LET t == [s EXCEPT !.errCalls =
                        Append(@, [rawJSON |-> s.rawJSON, err |-> s.err,
                                   out |-> o, ctx |-> s.ctx])]
           IN  IF o.panic # NoPanic THEN Panic(t, o.panic)
               ELSE IF ~o.resp.isNil
                 THEN DefaultErrorHandling(PrintOutput(t, o.resp.Output))
               ELSE DefaultErrorHandling(t)
      ELSE DefaultErrorHandling(s)

\* A handleError that hands the Error callback the re-serialized event once
\* Run has decoded the input.
handleErrorStep_Reserialized(s, o) ==
    IF s.runner.Error
      THEN LET text == IF s.rawEvent # NoMembers
                         THEN Marshal(s.rawEvent) ELSE s.rawJSON
               t == [s EXCEPT !.errCalls =
                        Append(@, [rawJSON |-> text, err |-> s.err,
                                   out |-> o, ctx |-> s.ctx])]
           IN  IF o.panic # NoPanic THEN Panic(t, o.panic)
               ELSE IF ~o.resp.isNil
                 THEN CallOsExit(PrintOutput(t, o.resp.Output), o.resp.ExitCode)
               ELSE DefaultErrorHandling(t)
      ELSE DefaultErrorHandling(s)

\* handleError(ctx, rawJSON, err); o is what r.Error does when called.
handleErrorStep(s, o) ==
    IF s.runner.Error
      THEN LET t == [s EXCEPT !.errCalls =
                        Append(@, [rawJSON |-> s.rawJSON, err |-> s.err,
                                   out |-> o, ctx |-> s.ctx])]
           IN  IF o.panic # NoPanic THEN Panic(t, o.panic)
               ELSE IF ~o.resp.isNil
                 THEN CallOsExit(PrintOutput(t, o.resp.Output), o.resp.ExitCode)
               ELSE DefaultErrorHandling(t)
      ELSE DefaultErrorHandling(s)

\* fmt.Errorf("panic: ...", p) for an error, a string or any other value.
PanicToError(p) == Err("panic: " \o p.text)

\* Run's deferred function on a panic: the string "exit" is re-raised, any
\* other value becomes an error for handleError.
RecoverStep(s) ==
    IF s.panicVal = ExitSentinel
      THEN [s EXCEPT !.pc = "unwound"]
      ELSE Fail([s EXCEPT !.inDefer = TRUE, !.panicVal = NoPanic],
                PanicToError(s.panicVal))

-----------------------------------------------------------------------------
(* Actions *)

\* io.ReadAll returns at the end of the stream or at a read error: on a
\* stream that stays open with no data it does not return.
ReadStdin ==
    /\ pc = "start"
    /\ stdin.syntax # "silent"
    /\ Becomes(ReadStdinStep(State))

RawStage ==
    /\ pc = "raw"
    /\ \E o \in IF runner.Raw THEN RawOutcomes ELSE {RawContinues} :
          Becomes(RawStageStep(State, o))

ParseJSON == pc = "parse" /\ Becomes(ParseJSONStep(State))

Classify == pc = "classify" /\ Becomes(ClassifyStep(State))

handlePreToolUse ==
    /\ pc = "handlePreToolUse"
    /\ \E o \in HandlerOutcomes("PreToolUse") :
          Becomes(handlePreToolUseStep(State, o))

handlePostToolUse ==
    /\ pc = "handlePostToolUse"
    /\ \E o \in HandlerOutcomes("PostToolUse") :
          Becomes(handlePostToolUseStep(State, o))

handleNotification ==
    /\ pc = "handleNotification"
    /\ \E o \in HandlerOutcomes("Notification") :
          Becomes(handleNotificationStep(State, o))

handleStop ==
    /\ pc = "handleStop"
    /\ \E o \in HandlerOutcomes("Stop") : Becomes(handleStopStep(State, o))

outputResponse ==
    /\ pc = "outputResponse"
    /\ \E encodeOK \in BOOLEAN : Becomes(outputResponseStep(State, encodeOK))

handleError ==
    /\ pc = "handleError"
    /\ \E o \in IF runner.Error THEN ErrorOutcomes ELSE {ErrorDefers} :
          Becomes(handleErrorStep(State, o))

Recover == pc = "recover" /\ Becomes(RecoverStep(State))

Next ==
    \/ ReadStdin
    \/ RawStage
    \/ ParseJSON
    \/ Classify
    \/ handlePreToolUse
    \/ handlePostToolUse
    \/ handleNotification
    \/ handleStop
    \/ outputResponse
    \/ handleError
    \/ Recover

Spec == Init /\ [][Next]_vars

\* The process runs whenever it can: a step of Run that is possible is taken.
SpecLive == Init /\ [][Next]_vars /\ WF_vars(Next)

\* The runs whose subject is the transcript: a Stop input on a Runner with no
\* slot but Stop, StopOnce and Error, over every file of up to MaxLines lines.
TranscriptRunners ==
    { r \in Runners :
        ~r.Raw /\ ~r.PreToolUse /\ ~r.PostToolUse /\ ~r.Notification }

StopInputs ==
    { i \in Inputs : /\ i.syntax = "object"
                     /\ i.members.hook_event_name = JStr("Stop")
                     /\ i.members.session_id = JStr("test") }

InitTranscript ==
    /\ runner \in TranscriptRunners
    /\ ctx = "live"
    /\ osExit \in {"os.Exit", "panicExit"}
    /\ stdin \in StopInputs
    /\ fs \in IF stdin.members.transcript_path = JStr("t.jsonl")
                THEN Files ELSE {<<>>}
    /\ pc = "start"
    /\ rawJSON = NoText
    /\ rawEvent = NoMembers
    /\ event = NoEvent
    /\ response = NilResponse("none")
    /\ err = NoErr
    /\ panicVal = NoPanic
    /\ inDefer = FALSE
    /\ rawCalls = <<>>
    /\ calls = <<>>
    /\ errCalls = <<>>
    /\ decodes = <<>>
    /\ encodeFailed = FALSE
    /\ stdout = <<>>
    /\ stderr = <<>>
    /\ exits = <<>>
    /\ retErr = NoErr

NextTranscript ==
    \/ ReadStdin
    \/ RawStage
    \/ ParseJSON
    \/ Classify
    \/ handleStop
    \/ outputResponse
    \/ handleError
    \/ Recover

SpecTranscript == InitTranscript /\ [][NextTranscript]_vars

\* The runs whose subject is the context: every input on the Runners with
\* all four kinds handled, under each context.
ContextRunners ==
    { r \in Runners :
        r.PreToolUse /\ r.PostToolUse /\ r.Notification /\ r.Stop }

InitContext ==
    /\ runner \in ContextRunners
    /\ ctx \in Contexts
    /\ osExit \in {"os.Exit", "panicExit"}
    /\ stdin \in Inputs
    /\ fs \in IF stdin.members.transcript_path = JStr("t.jsonl")
                THEN SampleFiles ELSE {<<>>}
    /\ pc = "start"
    /\ rawJSON = NoText
    /\ rawEvent = NoMembers
    /\ event = NoEvent
    /\ response = NilResponse("none")
    /\ err = NoErr
    /\ panicVal = NoPanic
    /\ inDefer = FALSE
    /\ rawCalls = <<>>
    /\ calls = <<>>
    /\ errCalls = <<>>
    /\ decodes = <<>>
    /\ encodeFailed = FALSE
    /\ stdout = <<>>
    /\ stderr = <<>>
    /\ exits = <<>>
    /\ retErr = NoErr

SpecContext == InitContext /\ [][Next]_vars

\* TestRunner.TestStop(stopHookActive, transcript): the harness builds the
\* StopEvent itself and calls r.Stop, or answers with an ErrorResponse when
\* r.Stop is nil; o is what the handler does.
TestStopStep(s, stopHookActive, transcript, o) ==
    LET ev == [kind |-> "Stop", SessionID |-> "test-session",
               StopHookActive |-> stopHookActive, TranscriptPath |-> "",
               Transcript |-> transcript]
        t  == [s EXCEPT !.event = ev, !.pc = "returned"]
    IN  IF ~s.runner.Stop
          THEN [t EXCEPT !.response = NewResponse("Error"),
                         !.err = Err("Stop handler not set")]
          ELSE [t EXCEPT !.calls = Append(@, [h |-> "Stop", event |-> ev,
                                              out |-> o, ctx |-> "live"]),
                         !.response = o.resp]

\* The flag of the Stop input: the zero value false when the member is absent.
InputFlag == stdin.members.stop_hook_active = JBool(TRUE)

\* The harness is called with the flag the Stop input carries.
TestStop ==
    /\ pc = "start"
    /\ \E o \in { x \in HandlerOutcomes("Stop") :
                    x.panic = NoPanic /\ x.err.isNil /\ ~x.resp.isNil },
          transcript \in { [isNil |-> TRUE, entries |-> <<>>],
                           [isNil |-> FALSE, entries |-> <<>>] } :
          Becomes(TestStopStep(State, InputFlag, transcript, o))

SpecHarness == InitTranscript /\ [][TestStop]_vars

\* Run is over: it returned, the process exited, or a panic left Run.
Done == pc \in {"returned", "exited", "unwound"}

-----------------------------------------------------------------------------
(* Observations *)

\* The handler slots invoked so far, in order.
HandlersInvoked == [i \in 1..Len(calls) |-> calls[i].h]

\* The exit status of the process once Run is over: the code given to osExit;
\* else 0 when Run returned nil, 1 when main logs Run's error and exits
\* (log.Fatal), 2 when a panic left Run (the Go runtime's status).
ExitCode ==
    IF exits # <<>> THEN exits[Len(exits)]
    ELSE IF pc = "returned" THEN (IF retErr.isNil THEN 0 ELSE 1)
    ELSE 2

\* The input text is a JSON object whose discriminator is the string k.
InputNames(k) ==
    stdin.syntax = "object" /\ stdin.members.hook_event_name = JStr(k)

\* The input text is a valid payload of kind k.
ValidInput(k) ==
    /\ InputNames(k)
    /\ stdin.members.session_id.ty \in {"absent", "string"}
    /\ stdin.members.stop_hook_active.ty \in {"absent", "bool"}
    /\ stdin.members.transcript_path.ty \in {"absent", "string"}

\* The Raw stage let the run through: no Raw, or Raw returned nil, nil.
RawPassed ==
    \/ ~runner.Raw /\ pc # "start" /\ pc # "raw"
    \/ rawCalls # <<>> /\ rawCalls[1].out = RawContinues

\* The positions after the dispatch switch and the handleXxx it called.
PastDispatch ==
    pc \in {"outputResponse", "handleError", "recover", "returned", "exited",
            "unwound"}

\* The stdout write of a directive's output.
DirectiveOutput(d) ==
    IF d.Output = "" THEN <<>>
    ELSE << [fmt |-> "text", text |-> d.Output, doc |-> <<>>] >>

\* handleError has handled the error err (it is not about to be called), and
\* did so by its default handling.
DefaultHandled ==
    /\ ~err.isNil
    /\ pc # "handleError"
    /\ \/ ~runner.Error
       \/ /\ errCalls # <<>>
          /\ errCalls[Len(errCalls)].out = ErrorDefers
          /\ errCalls[Len(errCalls)].err = err

-----------------------------------------------------------------------------
(* The same run replayed from its start on another Runner *)

\* What the callbacks did in this run.
Choices ==
    [raw     |-> IF rawCalls # <<>> THEN rawCalls[1].out ELSE RawContinues,
     handler |-> IF calls # <<>> THEN calls[1].out ELSE NoOutcome("none"),
     encodeOK |-> ~encodeFailed,
     errors  |-> [i \in 1..Len(errCalls) |-> errCalls[i].out]]

\* The state a run of Runner r starts in, on the input of state s.
StartOf(s, r) ==
    [s EXCEPT !.runner = r, !.pc = "start", !.rawJSON = NoText,
              !.rawEvent = NoMembers, !.event = NoEvent,
              !.response = NilResponse("none"), !.err = NoErr,
              !.panicVal = NoPanic, !.inDefer = FALSE, !.rawCalls = <<>>,
              !.calls = <<>>, !.errCalls = <<>>, !.decodes = <<>>,
              !.encodeFailed = FALSE, !.stdout = <<>>, !.stderr = <<>>,
              !.exits = <<>>, !.retErr = NoErr]

\* One stage of Run from s, the callbacks doing what ch says.
StepWith(s, ch) ==
    CASE s.pc = "start"              -> ReadStdinStep(s)
      [] s.pc = "raw"                -> RawStageStep(s, ch.raw)
      [] s.pc = "parse"              -> ParseJSONStep(s)
      [] s.pc = "classify"           -> ClassifyStep(s)
      [] s.pc = "handlePreToolUse"   -> handlePreToolUseStep(s, ch.handler)
      [] s.pc = "handlePostToolUse"  -> handlePostToolUseStep(s, ch.handler)
      [] s.pc = "handleNotification" -> handleNotificationStep(s, ch.handler)
      [] s.pc = "handleStop"         -> handleStopStep(s, ch.handler)
      [] s.pc = "outputResponse"     -> outputResponseStep(s, ch.encodeOK)
      [] s.pc = "handleError"        ->
            handleErrorStep(s, IF Len(s.errCalls) < Len(ch.errors)
                                 THEN ch.errors[Len(s.errCalls) + 1]
                                 ELSE ErrorDefers)
      [] s.pc = "recover"            -> RecoverStep(s)

RECURSIVE RunToEnd(_, _)
RunToEnd(s, ch) ==
    IF s.pc \in {"returned", "exited", "unwound"} THEN s
    ELSE RunToEnd(StepWith(s, ch), ch)

\* What a run shows: the handlers invoked with their events and outcomes, the
\* Error callback's calls, stdout, stderr, the exit calls and how Run ended.
Shown(s) ==
    [calls |-> s.calls, errCalls |-> s.errCalls, stdout |-> s.stdout,
     stderr |-> s.stderr, exits |-> s.exits, pc |-> s.pc, retErr |-> s.retErr,
     panicVal |-> s.panicVal]

-----------------------------------------------------------------------------
(* Claims *)

\* The JSON documents written to stdout.
ResponsesEmitted == SelectSeq(stdout, LAMBDA w : w.fmt = "json")

\* C1: for a Stop event with stop_hook_active = false on a Runner with both
\* Stop and StopOnce set, StopOnce is invoked exactly once, Stop is never
\* invoked, and a response emitted on stdout is the one StopOnce returned.
C1_StopOnceTakesPrecedence ==
    (event.kind = "Stop" /\ ~event.StopHookActive /\ runner.Stop
        /\ runner.StopOnce)
    => /\ HandlersInvoked = <<"StopOnce">>
       /\ ResponsesEmitted # <<>> =>
            /\ calls[1].out.panic = NoPanic /\ calls[1].out.err.isNil
            /\ ~calls[1].out.resp.isNil
            /\ ResponsesEmitted =
                 << [fmt |-> "json", text |-> "",
                     doc |-> Encode(calls[1].out.resp)] >>

\* A first Stop attempt on a Runner with both handlers has ended with the
\* response of StopOnce on stdout.
C1_Witness ==
    /\ Done /\ event.kind = "Stop" /\ ~event.StopHookActive
    /\ runner.Stop /\ runner.StopOnce
    /\ HandlersInvoked = <<"StopOnce">>
    /\ ResponsesEmitted # <<>>

\* The handler the Stop Resolver is to run, as the claim words it.
StopHandlerExpected ==
    IF ~event.StopHookActive /\ runner.StopOnce THEN <<"StopOnce">>
    ELSE IF runner.Stop THEN <<"Stop">>
    ELSE <<>>

\* C2: for every Stop event and every configuration of Stop and StopOnce the
\* handler that runs is StopOnce if the flag is false and StopOnce is set,
\* otherwise Stop if it is set, otherwise none, which is a no-op ending with
\* exit code 0 and no output; flag = true never invokes StopOnce and no run
\* invokes both.
C2_StopResolver ==
    event.kind = "Stop"
    => /\ HandlersInvoked = StopHandlerExpected
       /\ Len(calls) <= 1
       /\ event.StopHookActive => \A i \in 1..Len(calls) : calls[i].h # "StopOnce"
       /\ StopHandlerExpected = <<>> =>
            /\ pc = "returned" /\ ExitCode = 0
            /\ stdout = <<>> /\ stderr = <<>> /\ exits = <<>>

\* A retried Stop (flag = true) on a Runner with both handlers ran Stop.
C2_Witness ==
    /\ Done /\ event.kind = "Stop" /\ event.StopHookActive
    /\ runner.Stop /\ runner.StopOnce
    /\ HandlersInvoked = <<"Stop">>

\* The handler registered for a valid input of kind k: the slot k, and for
\* Stop the slot the flag of the input selects.
RegisteredFor(k) ==
    IF k = "Stop"
      THEN IF stdin.members.stop_hook_active # JBool(TRUE) /\ runner.StopOnce
             THEN "StopOnce"
             ELSE IF runner.Stop THEN "Stop" ELSE "none"
      ELSE IF runner[k] THEN k ELSE "none"

\* C3: for every valid input of one of the four kinds, dispatch invokes the
\* handler registered for that kind exactly once and no handler of another
\* kind, whatever other handlers are set.
C3_ExactlyTheRegisteredHandler ==
    \A k \in Kinds :
        (ValidInput(k) /\ RawPassed /\ PastDispatch /\ RegisteredFor(k) # "none")
        => HandlersInvoked = << RegisteredFor(k) >>

\* A PostToolUse input was dispatched on a Runner with every slot set.
C3_Witness ==
    /\ Done /\ ValidInput("PostToolUse") /\ RawPassed
    /\ \A h \in HandlerNames : runner[h]
    /\ HandlersInvoked = <<"PostToolUse">>

\* No handler is registered for kind k.
NoneRegistered(k) ==
    IF k = "Stop" THEN ~runner.Stop /\ ~runner.StopOnce ELSE ~runner[k]

\* The run was a silent no-op that ended in success.
SilentNoOp ==
    /\ calls = <<>> /\ errCalls = <<>>
    /\ stdout = <<>> /\ stderr = <<>>
    /\ pc = "returned" /\ ExitCode = 0

\* C4 as claimed: when the input names a known kind for which no handler is
\* registered, the run that dispatches it is a silent no-op: no handler and
\* no Error callback is invoked, nothing is written, the exit code is 0.
C4_NoHandlerSilent_Claimed ==
    \A k \in Kinds :
        (Done /\ InputNames(k) /\ RawPassed /\ NoneRegistered(k)) => SilentNoOp

\* C4 as amended: the same, a Stop input being one whose payload decodes as
\* a StopEvent (handleStop decodes the event before it looks for a handler).
C4_NoHandlerSilent ==
    \A k \in Kinds :
        (Done /\ InputNames(k) /\ RawPassed /\ NoneRegistered(k)
            /\ (k = "Stop" => ValidInput("Stop")))
        => SilentNoOp

\* A Stop input ended as a no-op on a Runner that has an Error callback and
\* neither Stop nor StopOnce.
C4_Witness ==
    /\ Done /\ RawPassed /\ runner.Error
    /\ ValidInput("Stop") /\ NoneRegistered("Stop")
    /\ event.kind = "Stop"
    /\ SilentNoOp

\* C5: whenever an error reaches handleError and the Error callback is absent
\* or returns nil, the error's message is written to stderr and the exit code
\* is 0 if the input's kind is Stop and 2 for every other kind, whatever
\* stage produced the error.
C5_DefaultPolicy ==
    DefaultHandled
    => /\ stderr = << err.msg >>
       /\ exits = << IF InputNames("Stop") THEN 0 ELSE 2 >>
       /\ ExitCode = IF InputNames("Stop") THEN 0 ELSE 2

\* An encode failure on a Stop event was handled by the default policy.
C5_Witness ==
    /\ Done /\ DefaultHandled /\ encodeFailed /\ InputNames("Stop")
    /\ exits = <<0>>

\* C6: whenever the Error callback returns a non-nil directive, the exit code
\* is the directive's code and stdout receives exactly the directive's
\* output, for every kind; the default policy is not applied and nothing is
\* written to stderr.
C6_DirectiveVerbatim ==
    (errCalls # <<>> /\ ~errCalls[Len(errCalls)].out.resp.isNil)
    => LET d == errCalls[Len(errCalls)].out.resp
       IN  /\ exits = << d.ExitCode >>
           /\ ExitCode = d.ExitCode
           /\ stdout = DirectiveOutput(d)
           /\ stderr = <<>>

\* The Error callback answered an error of a Stop event with a directive of
\* exit code 3.
C6_Witness ==
    /\ Done /\ InputNames("Stop") /\ calls # <<>>
    /\ errCalls # <<>> /\ ~errCalls[Len(errCalls)].out.resp.isNil
    /\ errCalls[Len(errCalls)].out.resp.ExitCode = 3

\* The input parses, and its discriminator is absent, not a string, or not
\* one of the four kinds.
BadDiscriminator ==
    /\ stdin.syntax \in {"object", "null"}
    /\ \/ stdin.members.hook_event_name.ty # "string"
       \/ stdin.members.hook_event_name.v \notin Kinds

\* The error the classifier is to report for the input.
ClassifyErrorExpected ==
    IF stdin.members.hook_event_name.ty # "string"
      THEN Err("missing or invalid hook_event_name field")
      ELSE Err("unknown event type: " \o stdin.members.hook_event_name.v)

\* C7: an input whose discriminator is absent or not a string, and one whose
\* discriminator is not one of the four kinds, reaches handleError with the
\* error "missing or invalid ... field" / "unknown event type: <value>",
\* invokes no event handler, and exits with code 2 under the default policy.
C7_BadDiscriminator ==
    (BadDiscriminator /\ RawPassed /\ pc \notin {"parse", "classify"})
    => /\ calls = <<>>
       /\ pc # "returned"
       /\ (pc = "handleError" /\ ~inDefer) => err = ClassifyErrorExpected
       /\ (runner.Error /\ ~(pc = "handleError" /\ ~inDefer)) =>
            /\ errCalls # <<>>
            /\ errCalls[1].err = ClassifyErrorExpected
            /\ errCalls[1].rawJSON = stdin
       /\ (/\ ~(pc = "handleError" /\ ~inDefer)
           /\ runner.Error => errCalls[1].out = ErrorDefers) =>
            /\ stderr = << ClassifyErrorExpected.msg >>
            /\ exits = <<2>>

\* An input of discriminator "stop" ended with exit code 2 after the Error
\* callback returned nil.
C7_Witness ==
    /\ Done /\ BadDiscriminator /\ RawPassed
    /\ InputNames("stop") /\ errCalls # <<>> /\ exits = <<2>>
    /\ stderr = << "unknown event type: stop" >>

\* A handler or the Raw preprocessor was called and panicked with p.
CallbackPanicked(p) ==
    \/ calls # <<>> /\ calls[1].out.panic = p
    \/ rawCalls # <<>> /\ rawCalls[1].out.panic = p

\* C8: a panic raised inside an event handler or the Raw preprocessor is
\* caught, converted to an error with the message "panic: <value>" whatever
\* the type of the value, and handled like a returned error: the Error
\* callback is offered it with the raw input, and otherwise the error goes
\* to stderr with the default exit code of the kind.
C8_PanicHandled ==
    \A p \in PanicValues :
        CallbackPanicked(p)
        => /\ pc = "handleError" => err = Err("panic: " \o p.text)
           /\ Done =>
                /\ runner.Error =>
                     /\ Len(errCalls) = 1
                     /\ errCalls[1].err = Err("panic: " \o p.text)
                     /\ errCalls[1].rawJSON = stdin
                /\ (runner.Error => errCalls[1].out = ErrorDefers) =>
                     /\ stderr = << "panic: " \o p.text >>
                     /\ exits = << IF InputNames("Stop") THEN 0 ELSE 2 >>

\* The Raw preprocessor returned a non-nil directive.
RawReturnedDirective ==
    /\ rawCalls # <<>>
    /\ rawCalls[1].out.panic = NoPanic
    /\ ~rawCalls[1].out.resp.isNil

\* Nothing but the directive of Raw decided the run: no decoding, no event
\* handler, no Error callback, the directive's output on stdout and its code
\* to osExit.
RawDirectiveUsed ==
    LET d == rawCalls[1].out.resp
    IN  /\ decodes = <<>> /\ calls = <<>> /\ errCalls = <<>>
        /\ stdout = DirectiveOutput(d)
        /\ stderr = <<>>
        /\ exits = << d.ExitCode >>
        /\ ExitCode = d.ExitCode

\* C9 as claimed: whenever the Raw preprocessor returns a non-nil directive,
\* no JSON decoding occurs, no event handler and no Error callback is
\* invoked, and the run ends with the directive's exit code and output, also
\* on an input that is no JSON.
C9_RawDirective_Claimed == RawReturnedDirective => RawDirectiveUsed

\* C9 as amended: the same when the directive comes with a nil error (Run
\* checks the error of Raw first, and hands a non-nil one to handleError).
C9_RawDirective ==
    (RawReturnedDirective /\ rawCalls[1].out.err.isNil) => RawDirectiveUsed

\* Raw answered text that is no JSON with a directive of exit code 3, on a
\* Runner that has an Error callback.
C9_Witness ==
    /\ Done /\ stdin.syntax = "garbage" /\ runner.Error
    /\ RawReturnedDirective /\ rawCalls[1].out.err.isNil
    /\ exits = <<3>>

\* C10: a Runner whose Raw preprocessor returns nil with no error behaves
\* like the same Runner without a Raw preprocessor, the other callbacks
\* doing the same: same handlers invoked, same stdout, same stderr, same
\* exit code.
C10_RawNilIsTransparent ==
    (Done /\ runner.Raw /\ Choices.raw = RawContinues)
    => Shown(State)
         = Shown(RunToEnd(StartOf(State, [runner EXCEPT !.Raw = FALSE]),
                          Choices))

\* A run whose Raw returned nil, nil went on to call a handler and ended.
C10_Witness ==
    /\ Done /\ runner.Raw /\ rawCalls # <<>>
    /\ rawCalls[1].out = RawContinues
    /\ calls # <<>> /\ stdout # <<>>

\* The Raw preprocessor returned a non-nil error.
RawReturnedError ==
    /\ rawCalls # <<>>
    /\ rawCalls[1].out.panic = NoPanic
    /\ ~rawCalls[1].out.err.isNil

\* C11: an error returned by the Raw preprocessor goes to handleError like
\* any other error: Run decodes nothing and calls no event handler, the Error
\* callback, when set, receives that error with the text read from stdin,
\* and when there is no Error callback or it returns nil the message goes to
\* stderr with the default exit code (0 for a Stop input, else 2).
C11_RawError ==
    RawReturnedError
    => LET e == rawCalls[1].out.err
       IN  /\ calls = <<>>
           /\ \A i \in 1..Len(decodes) : decodes[i] # "Run"
           /\ pc = "handleError" /\ errCalls = <<>> => err = e
           /\ errCalls # <<>> => /\ errCalls[1].err = e
                                 /\ errCalls[1].rawJSON = stdin
           /\ (Done /\ runner.Error) => errCalls # <<>>
           /\ (Done /\ (runner.Error => errCalls[1].out = ErrorDefers))
              => /\ stderr = << e.msg >>
                 /\ stdout = <<>>
                 /\ exits = << IF InputNames("Stop") THEN 0 ELSE 2 >>

\* Raw returned an error on a Stop input, the Error callback returned nil,
\* and the default handling ended the run with code 0.
C11_Witness ==
    /\ Done /\ RawReturnedError /\ InputNames("Stop")
    /\ runner.Error /\ Len(errCalls) = 1 /\ errCalls[1].out = ErrorDefers
    /\ stderr = << "raw handler error" >> /\ exits = <<0>>

\* A handler returned a non-nil response and a nil error, and outputResponse
\* has dealt with it.
ResponseHandled ==
    /\ calls # <<>>
    /\ calls[1].out.panic = NoPanic
    /\ calls[1].out.err.isNil
    /\ ~calls[1].out.resp.isNil
    /\ pc # "outputResponse"

\* Nothing was written and Run returned nil: exit code 0.
EmptyEmission ==
    /\ pc = "returned" /\ retErr.isNil
    /\ stdout = <<>> /\ stderr = <<>> /\ exits = <<>>
    /\ ExitCode = 0

\* Exactly the JSON document of v, with a member for each field that is set,
\* was written to stdout and Run returned nil: exit code 0.
DocumentEmission(v) ==
    /\ pc = "returned" /\ retErr.isNil
    /\ Len(stdout) = 1
    /\ stdout[1].fmt = "json"
    /\ stdout[1].doc = Encode(v)
    /\ Len(stdout[1].doc) = FieldsSet(v)
    /\ stderr = <<>> /\ exits = <<>>
    /\ ExitCode = 0

\* C12 as claimed: a response is empty iff none of its optional fields is
\* set; an empty response gives exit code 0 and nothing on stdout, and a
\* non-empty response gives exactly one JSON document on stdout and exit
\* code 0.
C12_Emission_Claimed ==
    ResponseHandled
    => LET v == calls[1].out.resp
       IN  /\ isEmpty(v) <=> FieldsSet(v) = 0
           /\ FieldsSet(v) = 0 => EmptyEmission
           /\ FieldsSet(v) > 0 => DocumentEmission(v)

\* C12 as amended: the same, the JSON document being written when
\* encoder.Encode succeeds (its failure is an error for handleError).
C12_Emission ==
    ResponseHandled
    => LET v == calls[1].out.resp
       IN  /\ isEmpty(v) <=> FieldsSet(v) = 0
           /\ FieldsSet(v) = 0 => EmptyEmission
           /\ (FieldsSet(v) > 0 /\ ~encodeFailed) => DocumentEmission(v)

\* A PostToolUse handler returned a response whose only set field is Reason,
\* and its document was written.
C12_Witness ==
    /\ ResponseHandled
    /\ calls[1].h = "PostToolUse"
    /\ calls[1].out.resp.Reason = "r"
    /\ FieldsSet(calls[1].out.resp) = 1
    /\ stdout = << [fmt |-> "json", text |-> "", doc |-> << <<"reason", "r">> >>] >>

\* C13: whenever a Stop or StopOnce handler is invoked, the Transcript of its
\* event is a non-nil (possibly empty) slice: with no path, with a file that
\* cannot be opened or read, with an empty file, and with a file of blank
\* and malformed lines only.
C13_TranscriptNeverNil ==
    \A i \in 1..Len(calls) :
        calls[i].h \in {"Stop", "StopOnce"}
        => ~calls[i].event.Transcript.isNil

\* The Stop handler was invoked on an event that names the file t.jsonl.
TranscriptLoaded ==
    /\ calls # <<>>
    /\ calls[1].h \in {"Stop", "StopOnce"}
    /\ calls[1].event.TranscriptPath = "t.jsonl"

\* C14: the transcript loaded from a file is exactly the well-formed records
\* of the file in file order: N well-formed lines give N entries, and blank
\* or malformed lines anywhere change neither the entries of the well-formed
\* lines nor their order, and do not end the reading of the lines after them.
C14_ExactlyTheWellFormedRecords ==
    TranscriptLoaded
    => calls[1].event.Transcript.entries = SelectSeq(fs, WellFormed)

\* How a run ended, apart from the events and texts handed to the callbacks:
\* the handlers invoked and what they did, the errors given to the Error
\* callback, stdout, stderr, the exit calls and the way Run was left.
Outcome(s) ==
    [handlers |-> [i \in 1..Len(s.calls) |->
                      [h |-> s.calls[i].h, out |-> s.calls[i].out]],
     errors   |-> [i \in 1..Len(s.errCalls) |-> s.errCalls[i].err],
     stdout |-> s.stdout, stderr |-> s.stderr, exits |-> s.exits,
     pc |-> s.pc, retErr |-> s.retErr]

\* The same run on the input without its transcript_path member.
WithoutTranscriptPath ==
    RunToEnd([StartOf(State, runner) EXCEPT
                 !.stdin.members.transcript_path = JAbsent],
             Choices)

\* The input is a Stop payload that names a file which cannot be opened.
NamesMissingFile ==
    ValidInput("Stop") /\ stdin.members.transcript_path = JStr("missing.jsonl")

\* C15: when a Stop event names a transcript file that cannot be opened, the
\* run goes on: no error of the open reaches the Error callback, the selected
\* stop handler is invoked with an empty transcript and the TranscriptPath of
\* the input, and the run ends as the handler's outcome decides, like the run
\* of the same input without the path.
C15_OpenFailureIgnored ==
    NamesMissingFile
    => /\ \A i \in 1..Len(errCalls) :
             errCalls[i].err # readTranscript("missing.jsonl", fs).err
       /\ (RawPassed /\ PastDispatch)
          => /\ HandlersInvoked = StopHandlerExpected
             /\ \A i \in 1..Len(calls) :
                   /\ calls[i].event.Transcript = [isNil |-> FALSE, entries |-> <<>>]
                   /\ calls[i].event.TranscriptPath = "missing.jsonl"
       /\ Done => Outcome(State) = Outcome(WithoutTranscriptPath)

\* A Stop handler was invoked on an event that names the missing file, its
\* response was written, and an Error callback was set but not called.
C15_Witness ==
    /\ Done /\ NamesMissingFile /\ runner.Error
    /\ HandlersInvoked = <<"Stop">>
    /\ calls[1].event.TranscriptPath = "missing.jsonl"
    /\ ResponsesEmitted # <<>>
    /\ errCalls = <<>>

\* C16: every time the Error callback is invoked, whichever stage produced
\* the error, its rawJSON argument is the text read from stdin, byte for
\* byte, not a re-serialization of the decoded event.
C16_ErrorGetsOriginalText ==
    \A i \in 1..Len(errCalls) :
        /\ errCalls[i].rawJSON = stdin
        /\ errCalls[i].rawJSON.form = "asWritten"

\* The Error callback was called for a failed encoding of the response, after
\* the input had been decoded and re-serialized for the handler.
C16_Witness ==
    /\ Len(errCalls) = 1
    /\ errCalls[1].err = Err("failed to encode response: write error")
    /\ errCalls[1].rawJSON = stdin
    /\ calls # <<>>
    /\ decodes # <<>>

\* C17: every run, on the success paths (empty response, non-empty response,
\* no handler registered) as on the failure paths, calls the process-exit
\* function exactly once, and no stage of Run executes after the call.
C17_ExitExactlyOnce ==
    /\ Done => Len(exits) = 1
    /\ Len(exits) <= 1
    /\ exits # <<>> => \/ pc \in {"exited", "unwound"}
                       \/ pc = "recover" /\ panicVal = ExitSentinel

\* C18: when stdin stays open and no data ever arrives, the run ends: it
\* gives up reading, writes "timeout reading stdin" to stderr and exits with
\* code 2, and no event handler is invoked.
C18_StdinTimeout ==
    (stdin.syntax = "silent")
    ~> (/\ Done
        /\ stderr = << "timeout reading stdin" >>
        /\ exits = <<2>>
        /\ calls = <<>>)

\* An event handler returned a non-nil error.
HandlerReturnedError ==
    /\ calls # <<>>
    /\ calls[1].out.panic = NoPanic
    /\ ~calls[1].out.err.isNil

\* C19: when a handler returns an error, that error, its message unchanged,
\* is what handleError and the Error callback receive, and no response body
\* is written to stdout, also when the handler returned a non-empty response
\* with the error.
C19_HandlerError ==
    HandlerReturnedError
    => LET e == calls[1].out.err
       IN  /\ pc = "handleError" /\ errCalls = <<>> => err = e
           /\ errCalls # <<>> => errCalls[1].err = e
           /\ (Done /\ runner.Error) => errCalls # <<>>
           /\ ResponsesEmitted = <<>>
           /\ (Done /\ (runner.Error => errCalls[1].out = ErrorDefers))
              => stderr = << e.msg >> /\ stdout = <<>>

\* A handler returned a non-empty response together with an error; the
\* Error callback got the error and nothing was written to stdout.
C19_Witness ==
    /\ Done /\ HandlerReturnedError
    /\ calls[1].out.resp = SomeResponse("PreToolUse")
    /\ Len(errCalls) = 1
    /\ errCalls[1].err = Err("handler error")
    /\ stdout = <<>>

\* The exit codes of the non-nil directives the Raw preprocessor and the
\* Error callback returned in this run.
DirectiveCodes ==
    { rawCalls[i].out.resp.ExitCode :
        i \in { j \in 1..Len(rawCalls) : ~rawCalls[j].out.resp.isNil } }
    \cup { errCalls[i].out.resp.ExitCode :
             i \in { j \in 1..Len(errCalls) : ~errCalls[j].out.resp.isNil } }

\* C20: the exit code of a run is 0 or 2 unless a non-nil directive of the
\* Raw preprocessor or of the Error callback supplied another value; no other
\* path, a stdin read failure included, gives an exit code outside {0, 2}.
C20_ExitCodes ==
    Done => ExitCode \in {0, 2} \cup DirectiveCodes

\* C21: Allow(), OK() and Continue() build empty responses, for which Run
\* writes nothing to stdout and exits 0; Approve(), Block(r), PostBlock(r),
\* BlockStop(r), StopClaude(r), StopClaudePost(r), StopFromNotification(r) and
\* StopFromStop(r) build non-empty responses for every reason r, the empty
\* string included, which Run writes as a document.
C21_Helpers ==
    /\ isEmpty(Allow) /\ isEmpty(OK) /\ isEmpty(Continue)
    /\ ~isEmpty(Approve)
    /\ \A r \in ReasonStrings :
          /\ ~isEmpty(Block(r)) /\ ~isEmpty(PostBlock(r))
          /\ ~isEmpty(BlockStop(r)) /\ ~isEmpty(StopClaude(r))
          /\ ~isEmpty(StopClaudePost(r)) /\ ~isEmpty(StopFromNotification(r))
          /\ ~isEmpty(StopFromStop(r))
    /\ ResponseHandled
       => LET v == calls[1].out.resp
          IN  /\ v \in {Allow, OK, Continue} => EmptyEmission
              /\ (v \in {Approve} \cup ReasonHelpers(v.ty) /\ ~encodeFailed)
                 => /\ Len(stdout) = 1 /\ stdout[1].fmt = "json"
                    /\ stdout[1].doc # <<>>
                    /\ ExitCode = 0

\* A PreToolUse handler returned StopClaude("") and its document, the member
\* continue alone, was written.
C21_Witness ==
    /\ ResponseHandled /\ Done
    /\ calls[1].out.resp = StopClaude("")
    /\ stdout = << [fmt |-> "json", text |-> "",
                    doc |-> << <<"continue", "false">> >>] >>

\* The run is over and was a success: the Raw stage let a valid input of kind
\* k through, and either no handler was registered for it, or its handler
\* returned a response and no error and the response was written or empty.
SucceededOn(k) ==
    /\ Done /\ RawPassed /\ ValidInput(k)
    /\ \/ RegisteredFor(k) = "none"
       \/ /\ calls # <<>>
          /\ calls[1].out.panic = NoPanic
          /\ calls[1].out.err.isNil
          /\ ~calls[1].out.resp.isNil
          /\ ~encodeFailed

\* C22: on every run that ends on the success path (a handler returned a
\* response and no error, or no handler was registered), nothing is written
\* to stderr and the Error callback is never invoked.
C22_SuccessIsQuiet ==
    \A k \in Kinds :
        SucceededOn(k)
        => /\ stderr = <<>>
           /\ errCalls = <<>>
           /\ pc = "returned" /\ retErr.isNil

\* A run on a Runner with an Error callback ended in success, once with the
\* document of Approve() written.
C22_Witness ==
    /\ SucceededOn("PreToolUse") /\ runner.Error
    /\ calls # <<>>
    /\ calls[1].out.resp = Approve
    /\ Len(stdout) = 1
    /\ stderr = <<>> /\ errCalls = <<>>

\* An event handler was called and panicked.
HandlerPanicked ==
    calls # <<>> /\ calls[1].out.panic # NoPanic

\* C23: every panic value raised by a handler, the string "exit" included, is
\* converted to an error and handled, never re-raised out of Run: a panic
\* leaves Run only as the unwinding of the process-exit call (or as a panic
\* of the Error callback that was handling the converted error).
C23_HandlerPanicNeverEscapes ==
    (HandlerPanicked /\ pc # "recover")
    => /\ err = Err("panic: " \o calls[1].out.panic.text)
       /\ pc = "unwound"
          => \/ exits # <<>>
             \/ /\ errCalls # <<>>
                /\ errCalls[Len(errCalls)].out.panic # NoPanic

\* C24: every error, the failure of the stdin read included, is surfaced to
\* handleError: the Error callback, when set, is offered it, otherwise it goes
\* to stderr with the default exit code; Run returns no error to its caller.
C24_NoErrorBypasses ==
    /\ retErr.isNil
    /\ (Done /\ stdin.syntax = "ioerror")
       => IF runner.Error THEN errCalls # <<>>
          ELSE stderr # <<>> /\ exits = <<2>>

\* The first error of the run is e: handleError is about to get it or got it,
\* the Error callback, when set, was offered it first, and without an Error
\* callback the default handling wrote it to stderr.
Reported(e) ==
    /\ ~err.isNil
    /\ pc = "handleError" /\ errCalls = <<>> => err = e
    /\ errCalls # <<>> => errCalls[1].err = e
    /\ (Done /\ runner.Error) => errCalls # <<>>
    /\ (Done /\ ~runner.Error) => stderr = << e.msg >>

\* The input names kind k and its payload does not decode as a k event, and
\* the run is past the handleXxx of k.
UndecodablePayload(k) ==
    InputNames(k) /\ ~ValidInput(k) /\ RawPassed /\ PastDispatch

\* C25: for each kind, an input with a valid discriminator whose payload
\* fails the kind's decoding is reported as "failed to parse <Kind>Event"
\* and no handler is invoked, whichever handlers are registered.
C25_DecodeErrorReported ==
    \A k \in Kinds :
        UndecodablePayload(k)
        => /\ calls = <<>>
           /\ Reported(Err("failed to parse " \o k \o "Event: type mismatch"))

\* The handlers Run invokes on the Stop input of this state, the handler
\* doing what it did for the harness.
RunInvokes ==
    LET end == RunToEnd(StartOf(State, runner),
                        [raw |-> RawContinues,
                         handler |-> IF calls # <<>> THEN calls[1].out
                                     ELSE NoOutcome("Stop"),
                         encodeOK |-> TRUE, errors |-> <<>>])
    IN  [i \in 1..Len(end.calls) |-> end.calls[i].h]

\* C26: TestRunner.TestStop(flag, transcript) invokes the handler (StopOnce,
\* Stop or none) that Run invokes for a Stop event carrying that flag, for
\* every flag and every configuration of Stop and StopOnce.
C26_HarnessResolvesLikeRun ==
    pc = "returned" => HandlersInvoked = RunInvokes

\* The same run under the context c.
UnderContext(c) ==
    RunToEnd([StartOf(State, runner) EXCEPT !.ctx = c], Choices)

\* C27: Run never consults the context: for every input and Runner the
\* handlers invoked, stdout, stderr and the exit code are the same under a
\* live, a cancelled and an expired context, and the context is only handed
\* through to the callbacks.
C27_ContextNotConsulted ==
    /\ \A i \in 1..Len(rawCalls) : rawCalls[i].ctx = ctx
    /\ \A i \in 1..Len(calls) : calls[i].ctx = ctx
    /\ \A i \in 1..Len(errCalls) : errCalls[i].ctx = ctx
    /\ Done => \A c \in Contexts : Outcome(State) = Outcome(UnderContext(c))

\* Under a cancelled context a handler was invoked with that context and its
\* response was written.
C27_Witness ==
    /\ Done /\ ctx = "cancelled"
    /\ calls # <<>>
    /\ calls[1].ctx = "cancelled"
    /\ ResponsesEmitted # <<>>
    /\ ExitCode = 0

\* A handler or Raw panicked with a value that Run converts to an error.
ConvertedPanic ==
    \E p \in { [ty |-> "string", text |-> "boom"],
               [ty |-> "error", text |-> "boom"], NilDeref } :
        CallbackPanicked(p)

\* C28: under the default error policy the exit code is 0 exactly when the
\* text read from stdin is a JSON object whose hook_event_name is the string
\* "Stop", and 2 otherwise: a Raw error or a panic on a Stop input exits 0;
\* text that does not parse, an object without the discriminator or with
\* "stop" exits 2.
C28_DefaultExitCode ==
    DefaultHandled
    => /\ Len(exits) = 1
       /\ exits[1] \in {0, 2}
       /\ exits[1] = 0 <=> InputNames("Stop")
       /\ (RawReturnedError /\ InputNames("Stop")) => exits[1] = 0
       /\ (ConvertedPanic /\ InputNames("Stop")) => exits[1] = 0
       /\ stdin.syntax \in {"garbage", "scalar", "null"} => exits[1] = 2
       /\ (stdin.syntax = "object"
             /\ stdin.members.hook_event_name.ty # "string") => exits[1] = 2
       /\ InputNames("stop") => exits[1] = 2

\* The Raw preprocessor returned an error on a Stop input, no Error callback
\* took it, and the run exited with 0.
C28_Witness ==
    /\ Done /\ DefaultHandled
    /\ RawReturnedError /\ InputNames("Stop")
    /\ exits = <<0>>

\* C29: the Error callback is invoked at most once per run, for every input
\* and every behaviour of the callbacks, a panic of the Error callback while
\* it handles an error included.
C29_ErrorAtMostOnce ==
    Len(errCalls) <= 1

\* The handler returned a nil response together with a nil error.
NilNilReturned ==
    /\ calls # <<>>
    /\ calls[1].out.panic = NoPanic
    /\ calls[1].out.err.isNil
    /\ calls[1].out.resp.isNil

\* C30: a handler's nil response with a nil error is not taken for an empty
\* response: isEmpty dereferences the nil pointer, Run recovers the panic and
\* ends on the failure path: the error "panic: runtime error: invalid memory
\* address or nil pointer dereference" is offered to the Error callback and
\* otherwise written to stderr with exit code 2 (0 for Stop); no response
\* is written to stdout.
C30_NilResponsePanics ==
    (NilNilReturned /\ pc # "outputResponse")
    => /\ ResponsesEmitted = <<>>
       /\ pc # "returned"
       /\ retErr.isNil
       /\ pc = "recover" => panicVal = NilDeref
       /\ pc = "handleError" => err = PanicToError(NilDeref)
       /\ Done =>
            /\ err = PanicToError(NilDeref)
            /\ runner.Error =>
                 /\ Len(errCalls) = 1
                 /\ errCalls[1].err = PanicToError(NilDeref)
                 /\ errCalls[1].rawJSON = stdin
            /\ (runner.Error => errCalls[1].out = ErrorDefers) =>
                 /\ stderr = << PanicToError(NilDeref).msg >>
                 /\ stdout = <<>>
                 /\ exits = << IF InputNames("Stop") THEN 0 ELSE 2 >>

\* A PreToolUse handler returned nil, nil on a Runner without Error callback:
\* the run ended with the panic's message on stderr and exit code 2.
C30_Witness ==
    /\ Done /\ NilNilReturned /\ ~runner.Error
    /\ calls[1].h = "PreToolUse"
    /\ stderr = << "panic: runtime error: invalid memory address or nil pointer dereference" >>
    /\ stdout = <<>>
    /\ exits = <<2>>

====
